---- MODULE Spec2Model ----
(***************************************************************************)
(* Model of the POST /cut handler of the FFmpeg video cutter (src/app.py). *)
(* Each worker handles one request: validation, allocation of the two      *)
(* temporary paths, save of the upload, the bounded encoder run, the       *)
(* response, and the deletion of the temporary files on every exit path.   *)
(*                                                                         *)
(* Text (filenames, form values) is a tuple of one-character strings, so   *)
(* that rsplit, lower and float are computed and not assumed.              *)
(***************************************************************************)
EXTENDS Integers, Sequences, FiniteSets, TLC

\* ------------------------------------------------------------------ bounds
\* requests the service receives in one behaviour
MaxRequests == 2

\* the request workers of the server: two requests can be in flight at once,
\* and a worker that has finished a request takes the next one
Workers == {1, 2}

\* ------------------------------------------------------- program constants
ALLOWED_EXTENSIONS ==
    { <<"m","p","4">>, <<"a","v","i">>, <<"m","o","v">>,
      <<"m","k","v">>, <<"w","e","b","m">> }

MIN_DURATION == 15
MAX_DURATION == 60

\* ------------------------------------------------------------ text helpers
UpperChars == <<"A","B","C","D","E","F","G","H","I","J","K","L","M",
                "N","O","P","Q","R","S","T","U","V","W","X","Y","Z">>
LowerChars == <<"a","b","c","d","e","f","g","h","i","j","k","l","m",
                "n","o","p","q","r","s","t","u","v","w","x","y","z">>
DigitChars == <<"0","1","2","3","4","5","6","7","8","9">>

\* str.lower() on one character
LowerChar(c) ==
    IF \E i \in 1..26 : UpperChars[i] = c
    THEN LowerChars[CHOOSE i \in 1..26 : UpperChars[i] = c]
    ELSE c

\* str.lower()
Lower(s) == [i \in 1..Len(s) |-> LowerChar(s[i])]

\* '.' in filename
HasDot(s) == \E i \in 1..Len(s) : s[i] = "."

\* index of the last '.', 0 when there is none
LastDot(s) ==
    IF HasDot(s)
    THEN CHOOSE i \in 1..Len(s) :
            s[i] = "." /\ \A k \in (i+1)..Len(s) : s[k] # "."
    ELSE 0

\* filename.rsplit('.', 1)[1]  (only evaluated when the name has a dot)
RsplitExt(s) == SubSeq(s, LastDot(s) + 1, Len(s))

IsDigit(c) == \E i \in 1..10 : DigitChars[i] = c
DigitVal(c) == (CHOOSE i \in 1..10 : DigitChars[i] = c) - 1

RECURSIVE DigitsVal(_)
DigitsVal(s) ==
    IF s = <<>> THEN 0
    ELSE 10 * DigitsVal(SubSeq(s, 1, Len(s) - 1)) + DigitVal(s[Len(s)])

RECURSIVE Pow10(_)
Pow10(n) == IF n = 0 THEN 1 ELSE 10 * Pow10(n - 1)

\* float(value): the result is a record
\*   kind "error"  the call raises ValueError
\*   kind "nan"    not-a-number
\*   kind "inf"    infinity of sign sgn
\*   kind "num"    the finite value sgn * num / den
\* Accepted here: optional sign, then nan, inf, or decimal digits with at
\* most one point and at least one digit.  (Exponents, underscores and
\* surrounding blanks, which float() also accepts, do not occur in the
\* values drawn below.)
FloatError == [kind |-> "error", sgn |-> 1, num |-> 0, den |-> 1]

ParseFloat(s) ==
    LET signed == s # <<>> /\ s[1] \in {"-", "+"}
        sgn    == IF signed /\ s[1] = "-" THEN -1 ELSE 1
        body   == IF signed THEN SubSeq(s, 2, Len(s)) ELSE s
        low    == Lower(body)
        dots   == {i \in 1..Len(body) : body[i] = "."}
        p      == IF dots = {} THEN Len(body) + 1 ELSE CHOOSE i \in dots : TRUE
        ip     == SubSeq(body, 1, p - 1)
        fp     == SubSeq(body, p + 1, Len(body))
    IN  IF low = <<"n","a","n">>
        THEN [kind |-> "nan", sgn |-> sgn, num |-> 0, den |-> 1]
        ELSE IF low = <<"i","n","f">>
        THEN [kind |-> "inf", sgn |-> sgn, num |-> 0, den |-> 1]
        ELSE IF /\ Cardinality(dots) <= 1
                /\ Len(ip) + Len(fp) >= 1
                /\ \A i \in 1..Len(ip) : IsDigit(ip[i])
                /\ \A i \in 1..Len(fp) : IsDigit(fp[i])
        THEN [kind |-> "num", sgn |-> sgn,
              num  |-> DigitsVal(ip) * Pow10(Len(fp)) + DigitsVal(fp),
              den  |-> Pow10(Len(fp))]
        ELSE FloatError

\* f >= n  for a parsed float f and an integer n (IEEE: nan compares false)
FloatGE(f, n) ==
    CASE f.kind = "num" -> f.sgn * f.num >= n * f.den
      [] f.kind = "inf" -> f.sgn = 1
      [] OTHER          -> FALSE

\* f < n
FloatLT(f, n) ==
    CASE f.kind = "num" -> f.sgn * f.num < n * f.den
      [] f.kind = "inf" -> f.sgn = -1
      [] OTHER          -> FALSE

\* f > n
FloatGT(f, n) ==
    CASE f.kind = "num" -> f.sgn * f.num > n * f.den
      [] f.kind = "inf" -> f.sgn = 1
      [] OTHER          -> FALSE

\* ------------------------------------------------------------- validation
\* allowed_file without the .lower()
allowed_file_CaseSensitive(filename) ==
    HasDot(filename) /\ RsplitExt(filename) \in ALLOWED_EXTENSIONS

allowed_file(filename) ==
    HasDot(filename) /\ Lower(RsplitExt(filename)) \in ALLOWED_EXTENSIONS

validate_timestamp(value) ==
    LET num == ParseFloat(value)
    IN  IF num.kind = "error" THEN FALSE ELSE FloatGE(num, 0)

\* A request: the multipart file part and the two form fields.  A part or
\* field that is absent has present = FALSE.
Field(v) == [present |-> TRUE, value |-> v]
Absent   == [present |-> FALSE, value |-> <<>>]
FilePart(name, data) == [present |-> TRUE, filename |-> name, data |-> data]
NoFilePart == [present |-> FALSE, filename |-> <<>>, data |-> ""]

\* request.form.get('start', '0')
StartOf(r) == IF r.start.present THEN r.start.value ELSE <<"0">>

\* the 400 bodies of cut_video
ErrNoFile   == "No file provided"
ErrEmpty    == "Empty filename"
ErrType     == "Invalid file type. Allowed: mp4, avi, mov, mkv, webm"
ErrStart    == "Invalid start timestamp"
ErrDuration == "Invalid or missing duration"
ErrRange    == "Duration must be between 15 and 60 seconds"

\* the validation prefix with the duration checks ahead of the start check
ValidationError_DurationFirst(r) ==
    IF ~r.file.present THEN ErrNoFile
    ELSE IF r.file.filename = <<>> THEN ErrEmpty
    ELSE IF ~allowed_file(r.file.filename) THEN ErrType
    ELSE IF \/ ~r.duration.present
            \/ r.duration.value = <<>>
            \/ ~validate_timestamp(r.duration.value) THEN ErrDuration
    ELSE IF \/ FloatLT(ParseFloat(r.duration.value), MIN_DURATION)
            \/ FloatGT(ParseFloat(r.duration.value), MAX_DURATION) THEN ErrRange
    ELSE IF ~validate_timestamp(StartOf(r)) THEN ErrStart
    ELSE ""

\* The validation prefix of cut_video: the error text of the first check
\* that returns 400, or "" when the request goes on to allocation.
ValidationError(r) ==
    IF ~r.file.present THEN ErrNoFile
    ELSE IF r.file.filename = <<>> THEN ErrEmpty
    ELSE IF ~allowed_file(r.file.filename) THEN ErrType
    ELSE IF ~validate_timestamp(StartOf(r)) THEN ErrStart
    ELSE IF \/ ~r.duration.present
            \/ r.duration.value = <<>>
            \/ ~validate_timestamp(r.duration.value) THEN ErrDuration
    ELSE IF \/ FloatLT(ParseFloat(r.duration.value), MIN_DURATION)
            \/ FloatGT(ParseFloat(r.duration.value), MAX_DURATION) THEN ErrRange
    ELSE ""

\* ------------------------------------------------------------------ state
VARIABLES
    pc,         \* position of each worker in cut_video
    req,        \* the request the worker is handling
    job_id,     \* the worker's job token, 0 before uuid4() was called
    input_path, \* the job's two temporary paths
    output_path,
    received,   \* how many requests the service has received
    nextId,     \* source of fresh tokens (uuid4)
    fs,         \* the temp directory: existing path -> content
    proc,       \* the worker's encoder child process
    result,     \* the CompletedProcess returned by subprocess.run
    exc,        \* the exception being handled
    resp,       \* the response returned to the transport layer
    transfer,   \* state of the 200 response's body transfer
    released,   \* how many times the deletion block was entered
    attempted,  \* the os.remove calls made for the job
    rmfailed,   \* the os.remove calls that raised
    runs,       \* how many times subprocess.run was called
    hist        \* outcomes of the external calls of the job

vars == <<pc, req, job_id, input_path, output_path, received, nextId, fs,
          proc, result, exc, resp, transfer, released, attempted, rmfailed,
          runs, hist>>

\* ------------------------------------------------------------------ paths
SafeChars == {"-", "_", "."}
IsAlnum(c) ==
    \/ IsDigit(c)
    \/ \E i \in 1..26 : UpperChars[i] = c \/ LowerChars[i] = c

\* werkzeug's secure_filename on the user-supplied part of the name: path
\* separators and blanks become one "_", characters outside
\* [A-Za-z0-9_.-] are dropped.  (The token and "_input_" in front of it
\* are unchanged by it, and keep the leading strip of "._" away.)
RECURSIVE SecureChars(_, _)
SecureChars(s, afterBlank) ==
    IF s = <<>> THEN <<>>
    ELSE IF s[1] \in {"/", " "}
         THEN (IF afterBlank THEN <<>> ELSE <<"_">>) \o SecureChars(Tail(s), TRUE)
         ELSE IF IsAlnum(s[1]) \/ s[1] \in SafeChars
              THEN <<s[1]>> \o SecureChars(Tail(s), FALSE)
              ELSE SecureChars(Tail(s), afterBlank)

secure_filename(s) == SecureChars(s, FALSE)

\* an input path made of the uploaded filename alone, without the token
InputPathOf_NoToken(id, filename) ==
    [job_id |-> 0, part |-> "_input_", name |-> secure_filename(filename)]

\* os.path.join(UPLOAD_FOLDER, secure_filename(f"{job_id}_input_{file.filename}"))
InputPathOf(id, filename) ==
    [job_id |-> id, part |-> "_input_", name |-> secure_filename(filename)]

\* one output path for every job: "output.mp4" without the token
OutputPathOf_NoToken(id) ==
    [job_id |-> 0, part |-> "_output", name |-> <<".", "m", "p", "4">>]

\* os.path.join(UPLOAD_FOLDER, f"{job_id}_output.mp4")
OutputPathOf(id) ==
    [job_id |-> id, part |-> "_output", name |-> <<".", "m", "p", "4">>]

NoPath == [job_id |-> 0, part |-> "", name |-> <<>>]

\* ------------------------------------------------------------- filesystem
EmptyFs == [p \in {} |-> 0]
Exists(f, p) == p \in DOMAIN f
WriteFile(f, p, c) == [q \in (DOMAIN f) \cup {p} |-> IF q = p THEN c ELSE f[q]]
RemoveFile(f, p) == [q \in (DOMAIN f) \ {p} |-> f[q]]

\* file contents: what the bytes were made from
Content(src, kind, start, duration) ==
    [src |-> src, kind |-> kind, start |-> start, duration |-> duration]
NoContent == Content("", "none", <<>>, <<>>)

\* ---------------------------------------------------------------- records
NoRequest == [file |-> NoFilePart, start |-> Absent, duration |-> Absent]
NoResult  == [returncode |-> -1, stderr |-> ""]
NoExc     == [type |-> "none", msg |-> <<>>]
NoResp    == [status |-> 0, mimetype |-> "", error |-> <<>>, file |-> NoContent]
NoHist    == [save |-> "none", run |-> "none", output |-> "unchecked",
              send |-> "none"]

\* jsonify({'error': msg}), status
JsonError(status, msg) ==
    [status |-> status, mimetype |-> "application/json", error |-> msg,
     file |-> NoContent]

\* send_file(output_path, mimetype='video/mp4', ...)
FileResponse(content) ==
    [status |-> 200, mimetype |-> "video/mp4", error |-> <<>>, file |-> content]

\* what Flask answers when an exception leaves the view function
UnhandledResponse ==
    [status |-> 500, mimetype |-> "text/html", error |-> <<>>, file |-> NoContent]

TimeoutMessage == <<"Processing timeout (max 5 minutes)">>

\* ------------------------------------------------------------------- Init
Init ==
    /\ pc        = [j \in Workers |-> "idle"]
    /\ req       = [j \in Workers |-> NoRequest]
    /\ job_id    = [j \in Workers |-> 0]
    /\ input_path  = [j \in Workers |-> NoPath]
    /\ output_path = [j \in Workers |-> NoPath]
    /\ received  = 0
    /\ nextId    = 1
    /\ fs        = EmptyFs
    /\ proc      = [j \in Workers |-> "none"]
    /\ result    = [j \in Workers |-> NoResult]
    /\ exc       = [j \in Workers |-> NoExc]
    /\ resp      = [j \in Workers |-> NoResp]
    /\ transfer  = [j \in Workers |-> "none"]
    /\ released  = [j \in Workers |-> 0]
    /\ attempted = [j \in Workers |-> {}]
    /\ rmfailed  = [j \in Workers |-> {}]
    /\ runs      = [j \in Workers |-> 0]
    /\ hist      = [j \in Workers |-> NoHist]

\* ----------------------------------------------------------------- inputs
\* filenames
N_clip_txt  == <<"c","l","i","p",".","t","x","t">>
N_video_MP4 == <<"v","i","d","e","o",".","M","P","4">>
N_a_mp4     == <<"a",".","m","p","4">>
N_mp4       == <<"m","p","4">>
N_a_b_mkv   == <<"a",".","b",".","m","k","v">>
N_x_mp4_txt == <<"x",".","m","p","4",".","t","x","t">>
N_x_dot     == <<"x",".">>
N_w_webm    == <<"w",".","w","e","b","m">>
N_c_Avi     == <<"c",".","A","v","i">>
N_d_mov     == <<"d",".","m","o","v">>
N_up_b_MKV  == <<".",".","/","b"," ","1",".","M","K","V">>

FileNames ==
    { <<>>, N_clip_txt, N_video_MP4, N_a_mp4, N_mp4, N_a_b_mkv, N_x_mp4_txt,
      N_x_dot, N_w_webm, N_c_Avi, N_d_mov, N_up_b_MKV }

StartValues ==
    { <<>>, <<"a","b","c">>, <<"-","1">>, <<"0">>, <<"1","2",".","5">>,
      <<"n","a","n">>, <<"i","n","f">> }

DurationValues ==
    { <<>>, <<"a","b","c">>, <<"-","5">>, <<"0">>, <<"1","0">>,
      <<"1","4",".","9">>, <<"1","5">>, <<"1","5",".","0">>, <<"3","0">>,
      <<"6","0">>, <<"6","0",".","1">>, <<"7","0">>, <<"n","a","n">>,
      <<"i","n","f">> }

Request(f, s, d) == [file |-> f, start |-> s, duration |-> d]

\* every combination of file part, start and duration (validation only)
AllRequests ==
    { Request(f, s, d) :
        f \in {NoFilePart} \cup {FilePart(n, "A") : n \in FileNames},
        s \in {Absent} \cup {Field(v) : v \in StartValues},
        d \in {Absent} \cup {Field(v) : v \in DurationValues} }

\* the requests the concurrent workers draw from
Requests ==
    { Request(FilePart(N_a_mp4, "A"), Absent, Field(<<"3","0">>)),
      Request(FilePart(N_up_b_MKV, "B"), Field(<<"1","2",".","5">>),
              Field(<<"1","5">>)),
      Request(NoFilePart, Absent, Field(<<"3","0">>)),
      Request(FilePart(N_a_mp4, "A"), Field(<<"0">>), Field(<<"7","0">>)) }

\* the request drawn when progress is checked: one that passes validation
LiveRequests ==
    { Request(FilePart(N_a_mp4, "A"), Absent, Field(<<"3","0">>)) }

\* what the encoder can end with: exit status and captured error stream
ExitResults ==
    { [returncode |-> 0, stderr |-> ""],
      [returncode |-> 1, stderr |-> ""],
      [returncode |-> 1, stderr |-> "Invalid data found when processing input"] }

\* ---------------------------------------------------------------- actions
\* a POST /cut request reaches a worker
Receive(j, r) ==
    /\ pc[j] = "idle"
    /\ received < MaxRequests
    /\ received' = received + 1
    /\ pc'  = [pc EXCEPT ![j] = "validate"]
    /\ req' = [req EXCEPT ![j] = r]
    /\ UNCHANGED <<job_id, input_path, output_path, nextId, fs,
                   proc, result, exc, resp, transfer, released, attempted,
                   rmfailed, runs, hist>>

\* validation that draws the job token before the checks
Validate_AllocFirst(j) ==
    /\ pc[j] = "validate"
    /\ job_id' = [job_id EXCEPT ![j] = nextId]
    /\ nextId' = nextId + 1
    /\ LET err == ValidationError(req[j])
       IN  IF err # ""
           THEN /\ resp' = [resp EXCEPT ![j] = JsonError(400, <<err>>)]
                /\ pc'   = [pc EXCEPT ![j] = "done"]
           ELSE /\ resp' = resp
                /\ pc'   = [pc EXCEPT ![j] = "allocate"]
    /\ UNCHANGED <<req, input_path, output_path, received, fs, proc, result,
                   exc, transfer, released, attempted, rmfailed, runs, hist>>

\* lines 57-84: every check that returns 400
Validate(j) ==
    /\ pc[j] = "validate"
    /\ LET err == ValidationError(req[j])
       IN  IF err # ""
           THEN /\ resp' = [resp EXCEPT ![j] = JsonError(400, <<err>>)]
                /\ pc'   = [pc EXCEPT ![j] = "done"]
           ELSE /\ resp' = resp
                /\ pc'   = [pc EXCEPT ![j] = "allocate"]
    /\ UNCHANGED <<req, job_id, input_path, output_path, received, nextId, fs,
                   proc, result, exc, transfer, released, attempted, rmfailed,
                   runs, hist>>

\* lines 86-92: uuid4() gives a token no other job has
Allocate(j) ==
    /\ pc[j] = "allocate"
    /\ job_id' = [job_id EXCEPT ![j] = nextId]
    /\ nextId' = nextId + 1
    /\ input_path'  = [input_path EXCEPT ![j] =
                           InputPathOf(nextId, req[j].file.filename)]
    /\ output_path' = [output_path EXCEPT ![j] = OutputPathOf(nextId)]
    /\ pc'     = [pc EXCEPT ![j] = "save"]
    /\ UNCHANGED <<req, received, fs, proc, result, exc, resp, transfer, released,
                   attempted, rmfailed, runs, hist>>

\* line 96: file.save(input_path) writes the upload
SaveOk(j) ==
    /\ pc[j] = "save"
    /\ fs'   = WriteFile(fs, input_path[j],
                         Content(req[j].file.data, "upload", <<>>, <<>>))
    /\ hist' = [hist EXCEPT ![j].save = "ok"]
    /\ pc'   = [pc EXCEPT ![j] = "run"]
    /\ UNCHANGED <<req, job_id, input_path, output_path, received, nextId,
                   proc, result, exc, resp, transfer, released, attempted,
                   rmfailed, runs>>

\* a failed file.save that is ignored: the handler goes on to the encoder
SaveFail_Continue(j, partial) ==
    /\ pc[j] = "save"
    /\ fs'   = WriteFile(fs, input_path[j],
                   Content(req[j].file.data, "partial-upload", <<>>, <<>>))
    /\ hist' = [hist EXCEPT ![j].save = "fail"]
    /\ pc'   = [pc EXCEPT ![j] = "run"]
    /\ UNCHANGED <<req, job_id, input_path, output_path, received, nextId,
                   proc, result, exc, resp, transfer, released, attempted,
                   rmfailed, runs>>

\* line 96: file.save raises, before or after the file was created
SaveFail(j, partial) ==
    /\ pc[j] = "save"
    /\ fs'   = IF partial
               THEN WriteFile(fs, input_path[j],
                         Content(req[j].file.data, "partial-upload", <<>>, <<>>))
               ELSE fs
    /\ exc'  = [exc EXCEPT ![j] =
                   [type |-> "Exception", msg |-> <<"[Errno 28] No space left on device">>]]
    /\ hist' = [hist EXCEPT ![j].save = "fail"]
    /\ pc'   = [pc EXCEPT ![j] = "except_generic"]
    /\ UNCHANGED <<req, job_id, input_path, output_path, received, nextId,
                   proc, result, resp, transfer, released, attempted,
                   rmfailed, runs>>

\* lines 131-136: subprocess.run starts the encoder
StartEncoder(j) ==
    /\ pc[j] = "run"
    /\ proc' = [proc EXCEPT ![j] = "running"]
    /\ runs' = [runs EXCEPT ![j] = @ + 1]
    /\ pc'   = [pc EXCEPT ![j] = "encoding"]
    /\ UNCHANGED <<req, job_id, input_path, output_path, received, nextId, fs,
                   result, exc, resp, transfer, released, attempted, rmfailed,
                   hist>>

\* lines 131-136: subprocess.run cannot start the encoder (OSError)
LaunchFail(j) ==
    /\ pc[j] = "run"
    /\ runs' = [runs EXCEPT ![j] = @ + 1]
    /\ exc'  = [exc EXCEPT ![j] =
                   [type |-> "Exception", msg |-> <<"[Errno 2] No such file or directory: '/usr/bin/ffmpeg'">>]]
    /\ hist' = [hist EXCEPT ![j].run = "launch_fail"]
    /\ pc'   = [pc EXCEPT ![j] = "except_generic"]
    /\ UNCHANGED <<req, job_id, input_path, output_path, received, nextId, fs,
                   proc, result, resp, transfer, released, attempted,
                   rmfailed>>

\* the running encoder creates its output file (lines 103-128: the last
\* argument is output_path, the input is input_path)
EncoderWrite(j) ==
    /\ pc[j] = "encoding"
    /\ proc[j] = "running"
    /\ ~Exists(fs, output_path[j])
    /\ fs' = WriteFile(fs, output_path[j],
                 Content(fs[input_path[j]].src, "partial-clip",
                         StartOf(req[j]), req[j].duration.value))
    /\ UNCHANGED <<pc, req, job_id, input_path, output_path, received, nextId,
                   proc, result, exc, resp, transfer, released, attempted,
                   rmfailed, runs, hist>>

\* the encoder exits before the timeout and subprocess.run returns
EncoderExit(j, r) ==
    /\ pc[j] = "encoding"
    /\ proc[j] = "running"
    /\ proc'   = [proc EXCEPT ![j] = "exited"]
    /\ result' = [result EXCEPT ![j] = r]
    /\ fs'     = IF r.returncode = 0 /\ Exists(fs, output_path[j])
                 THEN [fs EXCEPT ![output_path[j]].kind = "clip"]
                 ELSE fs
    /\ hist'   = [hist EXCEPT ![j].run = "exit"]
    /\ pc'     = [pc EXCEPT ![j] = "check"]
    /\ UNCHANGED <<req, job_id, input_path, output_path, received, nextId,
                   exc, resp, transfer, released, attempted, rmfailed, runs>>

\* subprocess.run without a timeout: the wait for the encoder is never cut
Timeout_Never(j) ==
    /\ FALSE
    /\ pc[j] = "encoding"
    /\ UNCHANGED vars

\* line 135: 300 s elapse; subprocess.run kills the child, waits for it and
\* raises TimeoutExpired
Timeout(j) ==
    /\ pc[j] = "encoding"
    /\ proc[j] = "running"
    /\ proc' = [proc EXCEPT ![j] = "killed"]
    /\ exc'  = [exc EXCEPT ![j] = [type |-> "TimeoutExpired", msg |-> <<"timed out after 300 seconds">>]]
    /\ hist' = [hist EXCEPT ![j].run = "timeout"]
    /\ pc'   = [pc EXCEPT ![j] = "except_timeout"]
    /\ UNCHANGED <<req, job_id, input_path, output_path, received, nextId, fs,
                   result, resp, transfer, released, attempted, rmfailed,
                   runs>>

\* the checks on the encoder's result with one more try after a failed run
CheckResult_Retry(j) ==
    /\ pc[j] = "check"
    /\ IF result[j].returncode # 0 /\ runs[j] < 2
       THEN /\ exc'  = exc
            /\ hist' = hist
            /\ pc'   = [pc EXCEPT ![j] = "run"]
       ELSE IF result[j].returncode # 0 \/ ~Exists(fs, output_path[j])
       THEN /\ exc'  = [exc EXCEPT ![j] =
                  [type |-> "Exception", msg |-> <<"Output file not created">>]]
            /\ hist' = [hist EXCEPT ![j].output = "missing"]
            /\ pc'   = [pc EXCEPT ![j] = "except_generic"]
       ELSE /\ exc'  = exc
            /\ hist' = [hist EXCEPT ![j].output = "present"]
            /\ pc'   = [pc EXCEPT ![j] = "send"]
    /\ UNCHANGED <<req, job_id, input_path, output_path, received, nextId, fs,
                   proc, result, resp, transfer, released, attempted,
                   rmfailed, runs>>

\* the checks on the encoder's result without the one on the return code
CheckResult_IgnoreReturnCode(j) ==
    /\ pc[j] = "check"
    /\ IF ~Exists(fs, output_path[j])
       THEN /\ exc'  = [exc EXCEPT ![j] =
                  [type |-> "Exception", msg |-> <<"Output file not created">>]]
            /\ hist' = [hist EXCEPT ![j].output = "missing"]
            /\ pc'   = [pc EXCEPT ![j] = "except_generic"]
       ELSE /\ exc'  = exc
            /\ hist' = [hist EXCEPT ![j].output = "present"]
            /\ pc'   = [pc EXCEPT ![j] = "send"]
    /\ UNCHANGED <<req, job_id, input_path, output_path, received, nextId, fs,
                   proc, result, resp, transfer, released, attempted,
                   rmfailed, runs>>

\* lines 138-145: the two checks on the encoder's result
CheckResult(j) ==
    /\ pc[j] = "check"
    /\ IF result[j].returncode # 0
       THEN /\ exc' = [exc EXCEPT ![j] =
                  [type |-> "Exception",
                   msg  |-> IF result[j].stderr # ""
                            THEN <<"FFmpeg error: ", result[j].stderr>>
                            ELSE <<"FFmpeg error: ", "FFmpeg exited with code ",
                                   ToString(result[j].returncode)>>]]
            /\ hist' = hist
            /\ pc'   = [pc EXCEPT ![j] = "except_generic"]
       ELSE IF ~Exists(fs, output_path[j])
       THEN /\ exc'  = [exc EXCEPT ![j] =
                  [type |-> "Exception", msg |-> <<"Output file not created">>]]
            /\ hist' = [hist EXCEPT ![j].output = "missing"]
            /\ pc'   = [pc EXCEPT ![j] = "except_generic"]
       ELSE /\ exc'  = exc
            /\ hist' = [hist EXCEPT ![j].output = "present"]
            /\ pc'   = [pc EXCEPT ![j] = "send"]
    /\ UNCHANGED <<req, job_id, input_path, output_path, received, nextId, fs,
                   proc, result, resp, transfer, released, attempted,
                   rmfailed, runs>>

\* The deletion block, written three times in cut_video (lines 159-162,
\* 171-174, 179-182):
\*     if os.path.exists(input_path):  os.remove(input_path)
\*     if os.path.exists(output_path): os.remove(output_path)
\* failIn / failOut: the os.remove call, if made, raises OSError.  The
\* exception ends the block, so a failure on the input skips the output.
DeletionBlock(f, inP, outP, failIn, failOut) ==
    LET tryIn     == Exists(f, inP)
        inRaised  == tryIn /\ failIn
        f1        == IF tryIn /\ ~failIn THEN RemoveFile(f, inP) ELSE f
        tryOut    == ~inRaised /\ Exists(f1, outP)
        outRaised == tryOut /\ failOut
        f2        == IF tryOut /\ ~failOut THEN RemoveFile(f1, outP) ELSE f1
    IN  [fs        |-> f2,
         raised    |-> inRaised \/ outRaised,
         attempted |-> (IF tryIn THEN {"input"} ELSE {})
                         \cup (IF tryOut THEN {"output"} ELSE {}),
         failed    |-> (IF inRaised THEN {"input"} ELSE {})
                         \cup (IF outRaised THEN {"output"} ELSE {})]

\* lines 148-167: send_file builds the response, cleanup is registered with
\* call_on_close, and the response is returned; its body is then streamed
SendFileOk(j) ==
    /\ pc[j] = "send"
    /\ Exists(fs, output_path[j])
    /\ resp'     = [resp EXCEPT ![j] = FileResponse(fs[output_path[j]])]
    /\ transfer' = [transfer EXCEPT ![j] = "streaming"]
    /\ hist'     = [hist EXCEPT ![j].send = "ok"]
    /\ pc'       = [pc EXCEPT ![j] = "streaming"]
    /\ UNCHANGED <<req, job_id, input_path, output_path, received, nextId, fs,
                   proc, result, exc, released, attempted, rmfailed, runs>>

\* lines 148-153: send_file raises
SendFileFail(j) ==
    /\ pc[j] = "send"
    /\ exc'  = [exc EXCEPT ![j] =
                   [type |-> "Exception", msg |-> <<"[Errno 5] Input/output error">>]]
    /\ hist' = [hist EXCEPT ![j].send = "fail"]
    /\ pc'   = [pc EXCEPT ![j] = "except_generic"]
    /\ UNCHANGED <<req, job_id, input_path, output_path, received, nextId, fs,
                   proc, result, resp, transfer, released, attempted,
                   rmfailed, runs>>

\* the transport layer finishes with the body: every byte was delivered, or
\* the connection was closed; it then closes the response
FinishTransfer(j, how) ==
    /\ pc[j] = "streaming"
    /\ transfer' = [transfer EXCEPT ![j] = how]
    /\ pc'       = [pc EXCEPT ![j] = "closing"]
    /\ UNCHANGED <<req, job_id, input_path, output_path, received, nextId, fs,
                   proc, result, exc, resp, released, attempted, rmfailed,
                   runs, hist>>

\* cleanup() that may run while the body is still being streamed
Cleanup_Early(j, failIn, failOut) ==
    /\ pc[j] \in {"streaming", "closing"}
    /\ LET d == DeletionBlock(fs, input_path[j], output_path[j], failIn, failOut)
       IN  /\ fs'        = d.fs
           /\ attempted' = [attempted EXCEPT ![j] = @ \cup d.attempted]
           /\ rmfailed'  = [rmfailed EXCEPT ![j] = @ \cup d.failed]
    /\ released' = [released EXCEPT ![j] = @ + 1]
    /\ pc'       = [pc EXCEPT ![j] = "done"]
    /\ UNCHANGED <<req, job_id, input_path, output_path, received, nextId,
                   proc, result, exc, resp, transfer, runs, hist>>

\* lines 156-165: cleanup(), called when the response is closed; an
\* exception of the deletion block is caught and printed
Cleanup(j, failIn, failOut) ==
    /\ pc[j] = "closing"
    /\ LET d == DeletionBlock(fs, input_path[j], output_path[j], failIn, failOut)
       IN  /\ fs'        = d.fs
           /\ attempted' = [attempted EXCEPT ![j] = @ \cup d.attempted]
           /\ rmfailed'  = [rmfailed EXCEPT ![j] = @ \cup d.failed]
    /\ released' = [released EXCEPT ![j] = @ + 1]
    /\ pc'       = [pc EXCEPT ![j] = "done"]
    /\ UNCHANGED <<req, job_id, input_path, output_path, received, nextId,
                   proc, result, exc, resp, transfer, runs, hist>>

\* lines 169-175: except subprocess.TimeoutExpired.  An exception of the
\* deletion block is raised inside the except clause: no other clause of the
\* same try catches it, it leaves cut_video and Flask answers 500.
TimeoutHandler(j, failIn, failOut) ==
    /\ pc[j] = "except_timeout"
    /\ LET d == DeletionBlock(fs, input_path[j], output_path[j], failIn, failOut)
       IN  /\ fs'        = d.fs
           /\ attempted' = [attempted EXCEPT ![j] = @ \cup d.attempted]
           /\ rmfailed'  = [rmfailed EXCEPT ![j] = @ \cup d.failed]
           /\ resp'      = [resp EXCEPT ![j] =
                               IF d.raised THEN UnhandledResponse
                               ELSE JsonError(408, TimeoutMessage)]
    /\ released' = [released EXCEPT ![j] = @ + 1]
    /\ pc'       = [pc EXCEPT ![j] = "done"]
    /\ UNCHANGED <<req, job_id, input_path, output_path, received, nextId,
                   proc, result, exc, transfer, runs, hist>>

\* except Exception that answers 500 without the deletion block
ErrorHandler_NoRelease(j, failIn, failOut) ==
    /\ pc[j] = "except_generic"
    /\ resp' = [resp EXCEPT ![j] = JsonError(500, exc[j].msg)]
    /\ pc'   = [pc EXCEPT ![j] = "done"]
    /\ UNCHANGED <<req, job_id, input_path, output_path, received, nextId, fs,
                   proc, result, exc, transfer, released, attempted, rmfailed,
                   runs, hist>>

\* lines 177-184: except Exception as e
ErrorHandler(j, failIn, failOut) ==
    /\ pc[j] = "except_generic"
    /\ LET d == DeletionBlock(fs, input_path[j], output_path[j], failIn, failOut)
       IN  /\ fs'        = d.fs
           /\ attempted' = [attempted EXCEPT ![j] = @ \cup d.attempted]
           /\ rmfailed'  = [rmfailed EXCEPT ![j] = @ \cup d.failed]
           /\ resp'      = [resp EXCEPT ![j] =
                               IF d.raised THEN UnhandledResponse
                               ELSE JsonError(500, exc[j].msg)]
    /\ released' = [released EXCEPT ![j] = @ + 1]
    /\ pc'       = [pc EXCEPT ![j] = "done"]
    /\ UNCHANGED <<req, job_id, input_path, output_path, received, nextId,
                   proc, result, exc, transfer, runs, hist>>

\* the request is over: the worker is free for the next one (the locals of
\* cut_video are gone, the temp directory is what it is)
Finish(j) ==
    /\ pc[j] = "done"
    /\ received < MaxRequests
    /\ pc'          = [pc EXCEPT ![j] = "idle"]
    /\ req'         = [req EXCEPT ![j] = NoRequest]
    /\ job_id'      = [job_id EXCEPT ![j] = 0]
    /\ input_path'  = [input_path EXCEPT ![j] = NoPath]
    /\ output_path' = [output_path EXCEPT ![j] = NoPath]
    /\ proc'        = [proc EXCEPT ![j] = "none"]
    /\ result'      = [result EXCEPT ![j] = NoResult]
    /\ exc'         = [exc EXCEPT ![j] = NoExc]
    /\ resp'        = [resp EXCEPT ![j] = NoResp]
    /\ transfer'    = [transfer EXCEPT ![j] = "none"]
    /\ released'    = [released EXCEPT ![j] = 0]
    /\ attempted'   = [attempted EXCEPT ![j] = {}]
    /\ rmfailed'    = [rmfailed EXCEPT ![j] = {}]
    /\ runs'        = [runs EXCEPT ![j] = 0]
    /\ hist'        = [hist EXCEPT ![j] = NoHist]
    /\ UNCHANGED <<received, nextId, fs>>

\* ---------------------------------------------------------- specifications
Next ==
    \E j \in Workers :
        \/ \E r \in Requests : Receive(j, r)
        \/ Validate(j)
        \/ Allocate(j)
        \/ SaveOk(j)
        \/ \E partial \in BOOLEAN : SaveFail(j, partial)
        \/ StartEncoder(j)
        \/ LaunchFail(j)
        \/ EncoderWrite(j)
        \/ \E r \in ExitResults : EncoderExit(j, r)
        \/ Timeout(j)
        \/ CheckResult(j)
        \/ SendFileOk(j)
        \/ SendFileFail(j)
        \/ \E how \in {"delivered", "disconnected"} : FinishTransfer(j, how)
        \/ \E failIn, failOut \in BOOLEAN : Cleanup(j, failIn, failOut)
        \/ \E failIn, failOut \in BOOLEAN : TimeoutHandler(j, failIn, failOut)
        \/ \E failIn, failOut \in BOOLEAN : ErrorHandler(j, failIn, failOut)
        \/ Finish(j)

Spec == Init /\ [][Next]_vars

\* The steps of worker j that the server and the clock carry out: every
\* step of cut_video, the expiry of the 300 s timeout, the end of the body
\* transfer and the close of the response.  The encoder's own progress
\* (EncoderWrite, EncoderExit) is not among them: it may never exit.
HandlerStep(j) ==
    \/ Validate(j)
    \/ Allocate(j)
    \/ SaveOk(j)
    \/ \E partial \in BOOLEAN : SaveFail(j, partial)
    \/ StartEncoder(j)
    \/ LaunchFail(j)
    \/ Timeout(j)
    \/ CheckResult(j)
    \/ SendFileOk(j)
    \/ SendFileFail(j)
    \/ \E how \in {"delivered", "disconnected"} : FinishTransfer(j, how)
    \/ \E failIn, failOut \in BOOLEAN : Cleanup(j, failIn, failOut)
    \/ \E failIn, failOut \in BOOLEAN : TimeoutHandler(j, failIn, failOut)
    \/ \E failIn, failOut \in BOOLEAN : ErrorHandler(j, failIn, failOut)

\* the service receiving valid requests, with the environment's choices as
\* in Next
NextLive ==
    \E j \in Workers :
        \/ \E r \in LiveRequests : Receive(j, r)
        \/ HandlerStep(j)
        \/ EncoderWrite(j)
        \/ \E r \in ExitResults : EncoderExit(j, r)
        \/ Finish(j)

\* ... and every worker scheduled fairly
SpecLive == Init /\ [][NextLive]_vars /\ \A j \in Workers : WF_vars(HandlerStep(j))

\* validation alone, over every combination of inputs, on one worker
NextValidation ==
    \/ \E r \in AllRequests : Receive(1, r)
    \/ Validate(1)

SpecValidation == Init /\ [][NextValidation]_vars

\* ------------------------------------------------------------ vocabulary
Allocated(j) == job_id[j] # 0
Completed(j) == pc[j] = "done"
Leaked(j, p) == Allocated(j) /\ Exists(fs, p)

\* ----------------------------------------------------------------- claims
\* C1: once a request has completed, whatever its status and whatever
\* happened on the way, neither the job's input path nor its output path
\* exists in the temp directory.
C1_NoTempFileLeaked ==
    \A j \in Workers :
        Completed(j) /\ Allocated(j) =>
            ~Exists(fs, input_path[j]) /\ ~Exists(fs, output_path[j])

\* C2: for every job that passed validation the deletion block is entered
\* exactly once on every exit path: never twice, and once at completion.
C2_ReleaseExactlyOnce ==
    \A j \in Workers :
        /\ released[j] <= 1
        /\ Completed(j) /\ Allocated(j) => released[j] = 1
        /\ ~Allocated(j) => released[j] = 0

C2_Witness ==
    \E j \in Workers :
        /\ Completed(j) /\ released[j] = 1
        /\ hist[j].run = "exit" /\ result[j].returncode # 0

\* C3: a deletion that fails on the timeout path or the error path neither
\* replaces the response (408 with the timeout message, 500 with the text
\* of the original error), nor keeps the other path from being tried.
C3_ReleaseNeverMasks ==
    \A j \in Workers :
        Completed(j) /\ exc[j].type # "none" /\ rmfailed[j] # {} =>
            /\ resp[j] = IF exc[j].type = "TimeoutExpired"
                         THEN JsonError(408, TimeoutMessage)
                         ELSE JsonError(500, exc[j].msg)
            /\ Exists(fs, input_path[j])  => "input"  \in attempted[j]
            /\ Exists(fs, output_path[j]) => "output" \in attempted[j]

\* C4: on the success path no step deletes the job's input or output file
\* unless the transfer of the response body has ended (delivered, or the
\* connection closed).
C4_DeleteAfterTransfer ==
    [][ \A j \in Workers :
          /\ hist'[j].send = "ok"
          /\ \/ Exists(fs, input_path[j])  /\ ~Exists(fs', input_path[j])
             \/ Exists(fs, output_path[j]) /\ ~Exists(fs', output_path[j])
          => transfer[j] \in {"delivered", "disconnected"} ]_vars

C4_Witness ==
    \E j \in Workers :
        /\ Completed(j) /\ resp[j].status = 200
        /\ transfer[j] = "disconnected"
        /\ attempted[j] = {"input", "output"} /\ rmfailed[j] = {}
        /\ ~Exists(fs, output_path[j])

\* C5: when a 408 or 500 response is returned for an allocated job, neither
\* of its paths exists.
C5_CleanupBeforeErrorResponse ==
    \A j \in Workers :
        Allocated(j) /\ resp[j].status \in {408, 500} =>
            ~Exists(fs, input_path[j]) /\ ~Exists(fs, output_path[j])

\* C6: a request answered 400 has no job token, no path and no encoder run,
\* and the step that rejects it leaves the temp directory, the processes and
\* the token source unchanged.
C6_RejectionTouchesNothing ==
    /\ [](\A j \in Workers :
            resp[j].status = 400 =>
                /\ ~Allocated(j)
                /\ input_path[j] = NoPath /\ output_path[j] = NoPath
                /\ runs[j] = 0 /\ proc[j] = "none")
    /\ [][ \A j \in Workers :
             resp[j].status # 400 /\ resp'[j].status = 400 =>
                 fs' = fs /\ proc' = proc /\ nextId' = nextId ]_vars

C6_Witness ==
    \E j \in Workers :
        /\ Completed(j) /\ resp[j].status = 400
        /\ DOMAIN fs # {}
        /\ \E k \in Workers : proc[k] = "running"

\* C7: a request that passes validation ends in 200 with a video/mp4 body or
\* in a JSON error object with status 408 or 500; no exception leaves
\* cut_video.
C7_NoUnhandledFault ==
    \A j \in Workers :
        Completed(j) /\ ValidationError(req[j]) = "" =>
            \/ resp[j].status = 200 /\ resp[j].mimetype = "video/mp4"
            \/ /\ resp[j].status \in {408, 500}
               /\ resp[j].mimetype = "application/json"
               /\ resp[j].error # <<>>

\* C8: the status is a function of the outcome: rejection 400; timeout 408
\* with the timeout message; exit 0 with the output present and sent 200;
\* every other outcome after allocation 500.
ExpectedStatus(j) ==
    IF ~Allocated(j) THEN 400
    ELSE IF hist[j].run = "timeout" THEN 408
    ELSE IF /\ hist[j].run = "exit" /\ result[j].returncode = 0
            /\ hist[j].output = "present" /\ hist[j].send = "ok" THEN 200
    ELSE 500

C8_StatusByOutcome ==
    \A j \in Workers :
        Completed(j) =>
            /\ resp[j].status = ExpectedStatus(j)
            /\ hist[j].run = "timeout" => resp[j].error = TimeoutMessage

\* the conditions of the validation rules, each stated on the request alone
MissingFile(r)   == ~r.file.present
EmptyName(r)     == r.file.filename = <<>>

\* the name ends with a '.' followed by an allowed extension, in any case
EndsWithAllowedExtension(n) ==
    \E e \in ALLOWED_EXTENSIONS :
        /\ Len(n) > Len(e)
        /\ n[Len(n) - Len(e)] = "."
        /\ Lower(SubSeq(n, Len(n) - Len(e) + 1, Len(n))) = e

\* the text is a number (not an error, not nan)
IsNumber(v)   == ParseFloat(v).kind \in {"num", "inf"}
IsNegative(v) ==
    LET f == ParseFloat(v)
    IN  f.sgn = -1 /\ (f.kind = "inf" \/ (f.kind = "num" /\ f.num > 0))

\* 15 <= v <= 60 for a number v
InRange(v) ==
    LET f == ParseFloat(v)
    IN  /\ f.kind = "num"
        /\ f.sgn * f.num >= 15 * f.den
        /\ f.sgn * f.num <= 60 * f.den

BadStart(r)    == ~IsNumber(StartOf(r)) \/ IsNegative(StartOf(r))
BadDuration(r) ==
    \/ ~r.duration.present
    \/ ~IsNumber(r.duration.value)
    \/ IsNegative(r.duration.value)
OutOfRange(r)  == r.duration.present /\ ~InRange(r.duration.value)

\* the rules in the order of the claim, and the 400 body of each
RuleFails(r) ==
    << MissingFile(r), EmptyName(r), ~EndsWithAllowedExtension(r.file.filename),
       BadStart(r), BadDuration(r), OutOfRange(r) >>
RuleBody == << ErrNoFile, ErrEmpty, ErrType, ErrStart, ErrDuration, ErrRange >>

Validated(j) == pc[j] \in {"allocate", "done"}

\* C9: a rejected request gets the 400 body of the earliest rule it fails,
\* in the order: file part, filename, extension, start, duration, range.
C9_EarliestRuleDecides ==
    \A j \in Workers :
        Validated(j) =>
            \A i \in 1..6 :
                RuleFails(req[j])[i] /\ (\A k \in 1..(i-1) : ~RuleFails(req[j])[k])
                    => pc[j] = "done" /\ resp[j] = JsonError(400, <<RuleBody[i]>>)

C9_Witness ==
    \E j \in Workers :
        /\ Completed(j)
        /\ req[j].file.filename = N_clip_txt
        /\ req[j].start.value = <<"a","b","c">>
        /\ req[j].duration.value = <<"7","0">>
        /\ resp[j] = JsonError(400, <<ErrType>>)

\* C10: a request passes validation exactly when the file part is present,
\* its name is not empty and ends in an allowed extension (any case), start
\* (0 when absent) is a number >= 0, and duration is present and is a number
\* with 15 <= duration <= 60.
PassesValidation(r) ==
    /\ r.file.present
    /\ r.file.filename # <<>>
    /\ EndsWithAllowedExtension(r.file.filename)
    /\ IsNumber(StartOf(r)) /\ ~IsNegative(StartOf(r))
    /\ r.duration.present
    /\ IsNumber(r.duration.value)
    /\ InRange(r.duration.value)

C10_AcceptedIffValid ==
    \A j \in Workers :
        Validated(j) =>
            /\ pc[j] = "allocate" <=> PassesValidation(req[j])
            /\ pc[j] = "done" <=> resp[j].status = 400

C10_Witness ==
    \E j \in Workers :
        /\ pc[j] = "allocate"
        /\ req[j].file.filename = N_video_MP4
        /\ ~req[j].start.present
        /\ req[j].duration.value = <<"6","0">>

\* the text t is one of the pieces the error text is made of, as it is
Contains(text, t) == \E i \in 1..Len(text) : text[i] = t

NonZeroExit(j) == hist[j].run = "exit" /\ result[j].returncode # 0

\* C11: after a non-zero exit of the encoder the response is 500 and its
\* error text contains the captured error stream unchanged, or the exit
\* code when the error stream is empty.
C11_StderrVerbatim ==
    \A j \in Workers :
        Completed(j) /\ NonZeroExit(j) =>
            /\ resp[j].status = 500
            /\ result[j].stderr # "" => Contains(resp[j].error, result[j].stderr)
            /\ result[j].stderr = "" =>
                   Contains(resp[j].error, ToString(result[j].returncode))

\* C12: after an encoder timeout the response is 408, and when the request
\* has completed the job's encoder process is not running and no output
\* file of the job remains.
C12_TimeoutKillsAndCleans ==
    \A j \in Workers :
        Completed(j) /\ hist[j].run = "timeout" =>
            /\ resp[j] = JsonError(408, TimeoutMessage)
            /\ proc[j] = "killed"
            /\ ~Exists(fs, output_path[j])

\* C13: a 200 response is produced only after the encoder exited with
\* status 0 and the output path existed when it was checked; an exit 0 with
\* the output path missing ends in 500.
C13_SuccessNeedsOutput ==
    \A j \in Workers :
        /\ resp[j].status = 200 =>
               /\ hist[j].run = "exit" /\ result[j].returncode = 0
               /\ hist[j].output = "present"
               /\ resp[j].file.kind = "clip"
        /\ Completed(j) /\ hist[j].run = "exit" /\ result[j].returncode = 0
               /\ hist[j].output = "missing" => resp[j].status = 500

C13_Witness ==
    \E j \in Workers :
        /\ Completed(j)
        /\ hist[j].run = "exit" /\ result[j].returncode = 0
        /\ hist[j].output = "missing"
        /\ resp[j] = JsonError(500, <<"Output file not created">>)

\* a job is live from the allocation of its paths to its release
Live(j) == Allocated(j) /\ released[j] = 0

\* C14: the input and output paths of two distinct live jobs are four
\* pairwise distinct paths, whatever the filenames of the two uploads.
C14_LivePathsDistinct ==
    \A j, k \in Workers :
        Live(j) /\ Live(k) /\ j # k =>
            Cardinality({input_path[j], output_path[j],
                         input_path[k], output_path[k]}) = 4

C14_Witness ==
    \E j, k \in Workers :
        /\ j # k /\ Live(j) /\ Live(k)
        /\ req[j].file.filename = req[k].file.filename
        /\ Exists(fs, input_path[j]) /\ Exists(fs, input_path[k])

\* the encoder run of the job ended in a failure
EncodeFailed(j) ==
    \/ hist[j].run \in {"timeout", "launch_fail"}
    \/ NonZeroExit(j)
    \/ hist[j].output = "missing"

\* C15: subprocess.run is called at most once per request; after a failed
\* run the request completes with one response, which no later step of
\* the request replaces.
C15_NoRetry ==
    /\ [](\A j \in Workers :
            /\ runs[j] <= 1
            /\ Completed(j) /\ EncodeFailed(j) =>
                   runs[j] = 1 /\ resp[j].status \in {408, 500})
    /\ [][ \A j \in Workers :
             resp[j] # NoResp => resp'[j] = resp[j] \/ pc'[j] = "idle" ]_vars

C15_Witness ==
    \E j \in Workers :
        /\ Completed(j) /\ NonZeroExit(j)
        /\ runs[j] = 1 /\ resp[j].status = 500

\* an accepted job that has not yet got its response
InFlight(j) == pc[j] \notin {"idle", "validate", "done"}

\* C16: with fair scheduling of the handler's steps and the timeout, every
\* request that passed validation eventually completes with a response
\* 200, 408 or 500 and its release, even if the encoder never exits.  A run
\* receives at most MaxRequests requests and a job in flight leaves that
\* condition only by completing, so "every job in flight eventually
\* completes" is: from some point on no job is in flight.
C16_EveryJobCompletes ==
    /\ <>[](\A j \in Workers : ~InFlight(j))
    /\ [](\A j \in Workers :
             Completed(j) /\ Allocated(j) =>
                 /\ resp[j].status \in {200, 408, 500}
                 /\ released[j] = 1)

C16_Witness ==
    \E j \in Workers :
        /\ Completed(j) /\ hist[j].run = "timeout"
        /\ proc[j] = "killed" /\ released[j] = 1

\* the content at a path, NoContent when nothing is there
FileAt(f, p) == IF Exists(f, p) THEN f[p] ELSE NoContent

\* the paths a step creates, rewrites or deletes
Touched == {p \in (DOMAIN fs) \cup (DOMAIN fs') : FileAt(fs, p) # FileAt(fs', p)}

\* a step of job j: of its handler or of its encoder
JobStep(j) ==
    \/ HandlerStep(j)
    \/ EncoderWrite(j)
    \/ \E r \in ExitResults : EncoderExit(j, r)

\* C17: a step of a job touches no path but the job's own two and leaves
\* the files of every other live job as they were; a 200 response carries
\* the clip made from the job's own upload with its own start and duration.
\* (A step that leaves the temp directory as it is touches no path.)
C17_JobsDoNotInterfere ==
    /\ [][ \A j \in Workers :
             fs' # fs /\ JobStep(j) =>
                 /\ Touched \subseteq {input_path[j], output_path[j]}
                 /\ \A k \in Workers \ {j} :
                        Live(k) =>
                            /\ FileAt(fs', input_path[k])  = FileAt(fs, input_path[k])
                            /\ FileAt(fs', output_path[k]) = FileAt(fs, output_path[k])
         ]_vars
    /\ [](\A j \in Workers :
            resp[j].status = 200 =>
                resp[j].file = Content(req[j].file.data, "clip",
                                       StartOf(req[j]), req[j].duration.value))

C17_Witness ==
    \E j, k \in Workers :
        /\ j # k
        /\ Completed(j) /\ resp[j].status = 200 /\ resp[j].file.src = "A"
        /\ Completed(k) /\ resp[k].status = 200 /\ resp[k].file.src = "B"

\* subprocess.run was called for the job, or its encoder process exists
EncoderStarted(j) == runs[j] > 0 \/ proc[j] # "none"

\* the requests of the service that pass every check of the validation
PassingRequests == {r \in Requests : ValidationError(r) = ""}

\* C18: the steps of a job come in the order validation, allocation, save,
\* encoder start, response: each has happened only if the ones before it
\* have, the encoder is never started after a failed validation or a failed
\* save, and a failed save ends in 500 with no encoder run.
C18_StepOrder ==
    \A j \in Workers :
        /\ Allocated(j) => req[j] \in PassingRequests
        /\ hist[j].save # "none" => Allocated(j)
        /\ EncoderStarted(j) => Allocated(j) /\ hist[j].save = "ok"
        /\ resp[j].status = 200 => runs[j] = 1 /\ proc[j] = "exited"
        /\ Completed(j) /\ hist[j].save = "fail" =>
               resp[j].status = 500 /\ ~EncoderStarted(j)

C18_Witness ==
    \E j \in Workers :
        /\ Completed(j) /\ hist[j].save = "fail"
        /\ resp[j] = JsonError(500, exc[j].msg)
        /\ runs[j] = 0

====
